---- MODULE Spec2Model ----
(***************************************************************************)
(* Model of package plog (plog.go): the RingBuffer store (one              *)
(* container/ring per priority rank, a default priority, highP) and the    *)
(* Logger front end (append buffer aBuf, session mutex).                   *)
(*                                                                         *)
(* Spec         sequential calls of the RingBuffer API, one action per     *)
(*              call                                                       *)
(* SpecLogger   sequential calls of the Logger API, one action per call    *)
(* SpecOverflow the Write and Pop calls of testRingBufferOverflow          *)
(* SpecAnyCap   Spec for stores of any size, also 0 and below              *)
(* SpecConc     concurrent sessions and a Pop caller, one action per       *)
(*              statement of PWrite and Pop (Pop takes no lock, so its     *)
(*              statements interleave)                                     *)
(* SpecPops     concurrent Pop callers, one action per statement, and a    *)
(*              caller of PWrite                                           *)
(***************************************************************************)
EXTENDS Integers, Sequences, FiniteSets, TLC

\* ---------------------------------------------------------------- constants

\* LogPriority enum, plog.go:14-19
Trivial == 0
Minor == 1
Major == 2
Critical == 3
Priority == Trivial..Critical

\* bounds of the model: capacities tried, calls made
MaxBufCap == 2
MaxWrites == 3
MaxPops == 3
MaxAppends == 2
MaxCommits == 2
\* the overflow scenario: Write calls and Pop calls made
OverflowWrites == 7
OverflowPops == 6

\* the byte slice a caller hands to Write / PWrite for its c-th entry at rank
\* i (c = 0, 1, ..): plog_test.go labels its entries "major0", "major1", ..;
\* here the label is the rank, c + 1 times, so that lengths differ too
Entry(i, c) == [j \in 1..(c + 1) |-> i]

\* error values of Pop, by message
NoErr == "nil"
ErrEmpty == "Buffer is empty"
ErrAssert == "pop type assertion failed"
\* a nil *ring.Ring was dereferenced: the call does not return
ErrNilDeref == "panic: nil pointer dereference"

\* ---------------------------------------------------------------- values

\* the nil interface value of an untouched ring element
Nil == [k |-> "nil"]
\* a []byte with storage of its own
Bytes(b) == [k |-> "bytes", b |-> b]
\* a []byte of length n that shares the storage of the Logger's aBuf
Alias(n) == [k |-> "alias", n |-> n]

\* the concurrent callers: sessions (Lock, Append .., AppendDone, Unlock) and
\* callers of Pop
Sessions == {"s1", "s2"}
Poppers == {"r1", "r2"}
\* the caller that drains the store of the sessions, plog_test.go:35-37
Drainers == {"r1"}
Procs == Sessions \cup Poppers
NoProc == "nobody"

\* a map key that is absent, and a nil *ring.Ring
NoKey == [k |-> "nokey"]
NilRing == [k |-> "nilring"]

VARIABLES
    p,        \* RingBuffer.p, the default priority
    bufCap,   \* RingBuffer.bufCap
    buf,      \* RingBuffer.buf: rank -> NoKey | NilRing | ring
    highP,    \* RingBuffer.highP
    aArr,     \* Logger.aBuf: the bytes of its storage, all cap(buf) of them
    aLen,     \* Logger.aBuf: len(buf); nothing reads from aBuf, so off = 0
    shadow,   \* buf as it would be had every write stored a copy of its bytes
    last,     \* the most recent call and what it returned
    out,      \* results of the Pops since the most recent write
    unread,   \* reference model: per rank, the unread entries, oldest first
    written,  \* per rank, everything written since construction (kept until
              \* a write follows a Pop)
    phase,    \* "writing": no Pop yet; "draining": Pops, no write after the
              \* first; "mixed": a write followed a Pop
    dflt,     \* the default priority a caller set last, and by which call
    lock,     \* RingBuffer.lock: the caller that holds it, or NoProc
    llock,    \* Logger.lock: the caller that holds it, or NoProc
    pc,       \* per concurrent caller, the statement it executes next
    loc,      \* per concurrent caller, its locals: the slice b or value
              \* read (v), the rank or loop index (i), Appends made (k),
              \* the strings it appends (plan), the rank and element its
              \* Pop read (slot)
    fault,    \* "none", or the fatal error that ended the program
    frags,    \* per session, the fragments it appended, concatenated
    order,    \* the sessions in the order of their AppendDone, with the rank
    early,    \* a Pop was called before every session had finished
    napp,     \* number of Append calls made
    cnt,      \* per rank, the number of writes made
    npop      \* number of Pop calls made

concVars == <<lock, llock, pc, loc, fault, frags, order, early>>

vars == <<p, bufCap, buf, highP, aArr, aLen, shadow, lock, llock, pc, loc, fault,
          frags, order, early, last, out, unread, written, phase, dflt, napp, cnt, npop>>

\* ---------------------------------------------------------------- container/ring

\* mutant: the ring has two elements more than asked for
RingNewTwoMore(n) ==
    IF n <= 0 THEN NilRing
    ELSE [val |-> [j \in 0..(n + 1) |-> Nil], at |-> 0]
\* ring.New(n): n elements with nil Values; nil for n <= 0
RingNew(n) ==
    IF n <= 0 THEN NilRing
    ELSE [val |-> [j \in 0..(n - 1) |-> Nil], at |-> 0]

RingLen(r) == Cardinality(DOMAIN r.val)
RingNext(r) == [r EXCEPT !.at = (r.at + 1) % RingLen(r)]
RingPrev(r) == [r EXCEPT !.at = (r.at + RingLen(r) - 1) % RingLen(r)]
RingValue(r) == r.val[r.at]
RingSet(r, v) == [r EXCEPT !.val[r.at] = v]

IsRing(x) == x # NoKey /\ x # NilRing

\* ---------------------------------------------------------------- RingBuffer

\* NewRingBuffer(prio, size)
NewRingBuffer(prio, size) ==
    /\ p = prio
    /\ bufCap = size
    /\ buf = [i \in Priority |-> NoKey]
    /\ highP = 0

\* NewLogger(b), plog.go:29-35: bytes.NewBuffer([]byte{})
NewLogger ==
    /\ aArr = <<>>
    /\ aLen = 0

\* len(b) and string(b) for the value of a ring element
SliceLen(v) == IF v.k = "alias" THEN v.n ELSE Len(v.b)
Text(v) == IF v.k = "alias" THEN SubSeq(aArr, 1, v.n) ELSE v.b

\* mutant: highP is not raised by a write
PWriteRaiseNever(S, i) == S
\* plog.go:169-172
PWriteRaise(S, i) == IF i > S.highP THEN [S EXCEPT !.highP = i] ELSE S
\* mutant: the ring of a rank is never allocated
PWriteAllocNever(S, i, cap) == S
\* plog.go:174-176
PWriteAlloc(S, i, cap) ==
    IF S.buf[i] = NoKey \/ S.buf[i] = NilRing
    THEN [S EXCEPT !.buf[i] = RingNew(cap)] ELSE S
\* plog.go:178
PWriteStore(S, i, v) == [S EXCEPT !.buf[i] = RingSet(@, v)]
\* mutant: the ring is not advanced after the store
PWriteNextStay(S, i) == S
\* plog.go:179
PWriteNext(S, i) == [S EXCEPT !.buf[i] = RingNext(@)]

\* the body of PWrite: the store after it, and (len(b), nil)
PWriteBody(S, i, v, cap) ==
    LET S2 == PWriteAlloc(PWriteRaise(S, i), i, cap)
    IN  IF ~IsRing(S2.buf[i]) THEN [st |-> S2, n |-> 0, err |-> ErrNilDeref]
        ELSE [st |-> PWriteNext(PWriteStore(S2, i, v), i),
              n |-> SliceLen(v), err |-> NoErr]

\* plog.go:135
PopHasKey(S) == S.buf[S.highP] # NoKey
\* plog.go:140
PopPrev(S) == [S EXCEPT !.buf[S.highP] = RingPrev(@)]
\* plog.go:141
PopValue(S) == RingValue(S.buf[S.highP])
\* mutant: the element read is not cleared
PopClearNot(S) == S
\* plog.go:146
PopClear(S) == [S EXCEPT !.buf[S.highP] = RingSet(@, Nil)]
\* plog.go:150, the test of one iteration
PopScanHit(S, i) == IsRing(S.buf[i]) /\ RingValue(RingPrev(S.buf[i])) # Nil
\* mutant: highP is never lowered
PopScanNoLower(S) == S
\* plog.go:149-154, the loop
PopScan(S) ==
    LET hits == {i \in 0..S.highP : PopScanHit(S, i)}
    IN  IF hits = {} THEN S
        ELSE [S EXCEPT !.highP = CHOOSE i \in hits : \A j \in hits : j <= i]

\* mutant: a failed type assertion removes the ring of highP from the map
PopBodyDropsRing(S) ==
    IF ~PopHasKey(S) THEN [st |-> S, s |-> <<>>, err |-> ErrEmpty]
    ELSE LET S1 == PopPrev(S)
             v == PopValue(S1)
         IN  IF v = Nil
             THEN [st |-> [S EXCEPT !.buf[S.highP] = NoKey], s |-> <<>>, err |-> ErrAssert]
             ELSE [st |-> PopScan(PopClear(S1)), s |-> Text(v), err |-> NoErr]
\* mutant: an element that holds an entry of length 0 is taken for an
\* element that holds none
PopBodyEmptyIsNil(S) ==
    IF ~PopHasKey(S) THEN [st |-> S, s |-> <<>>, err |-> ErrEmpty]
    ELSE IF ~IsRing(S.buf[S.highP]) THEN [st |-> S, s |-> <<>>, err |-> ErrNilDeref]
    ELSE LET S1 == PopPrev(S)
             v == PopValue(S1)
         IN  IF v = Nil \/ SliceLen(v) = 0 THEN [st |-> S1, s |-> <<>>, err |-> ErrAssert]
             ELSE [st |-> PopScan(PopClear(S1)), s |-> Text(v), err |-> NoErr]
\* the body of Pop: the store after it, the text and the error
PopBody(S) ==
    IF ~PopHasKey(S) THEN [st |-> S, s |-> <<>>, err |-> ErrEmpty]
    ELSE IF ~IsRing(S.buf[S.highP]) THEN [st |-> S, s |-> <<>>, err |-> ErrNilDeref]
    ELSE LET S1 == PopPrev(S)
             v == PopValue(S1)
         IN  IF v = Nil THEN [st |-> S1, s |-> <<>>, err |-> ErrAssert]
             ELSE [st |-> PopScan(PopClear(S1)), s |-> Text(v), err |-> NoErr]

\* mutant: the default priority is taken to be Minor
GetPriorityMinor == Minor
\* plog.go:123-125
GetPriorityBody == p

Store == [buf |-> buf, highP |-> highP]
ShadowStore == [buf |-> shadow, highP |-> highP]

\* ---------------------------------------------------------------- reference model

Ranks(u) == {i \in Priority : u[i] # <<>>}
TopRank(u) == CHOOSE i \in Ranks(u) : \A j \in Ranks(u) : j <= i

\* what a Pop should return for unread entries u
Want(u) == IF Ranks(u) = {} THEN [ok |-> FALSE, s |-> <<>>]
           ELSE [ok |-> TRUE, s |-> u[TopRank(u)][Len(u[TopRank(u)])]]

\* u after a write of b at rank i into rings of capacity cap
Pushed(u, i, b, cap) ==
    [u EXCEPT ![i] = IF Len(@) >= cap THEN Append(Tail(@), b) ELSE Append(@, b)]

\* u after the newest entry of rank i was consumed
Popped(u, i) ==
    [u EXCEPT ![i] = IF @ = <<>> THEN @ ELSE SubSeq(@, 1, Len(@) - 1)]

NoEntries == [i \in Priority |-> <<>>]

\* ---------------------------------------------------------------- Spec

RECURSIVE SumTo(_, _)
SumTo(f, i) == IF i < 0 THEN 0 ELSE f[i] + SumTo(f, i - 1)
NWrites == SumTo(cnt, Critical)

\* the state after NewRingBuffer(prio, size), size one of sizes, and NewLogger
InitWith(sizes) ==
    /\ \E prio \in Priority, size \in sizes : NewRingBuffer(prio, size)
    /\ NewLogger
    /\ shadow = buf
    /\ lock = NoProc
    /\ llock = NoProc
    /\ pc = [x \in Procs |-> IF x \in Sessions THEN "lock" ELSE "idle"]
    /\ loc = [x \in Procs |-> [v |-> Nil, i |-> 0, k |-> 0, plan |-> <<>>, slot |-> <<>>]]
    /\ fault = "none"
    /\ frags = [x \in Sessions |-> <<>>]
    /\ order = <<>>
    /\ early = FALSE
    /\ last = [op |-> "NewRingBuffer", rank |-> p, b |-> <<>>, n |-> 0, err |-> NoErr]
    /\ out = <<>>
    /\ unread = NoEntries
    /\ written = NoEntries
    /\ phase = "writing"
    /\ dflt = [rank |-> p, by |-> "NewRingBuffer"]
    /\ napp = 0
    /\ cnt = [i \in Priority |-> 0]
    /\ npop = 0

Init == InitWith(1..MaxBufCap)

\* the effect of a write of the slice v at rank i, called as op
WriteEffect(op, i, v) ==
    LET r == PWriteBody(Store, i, v, bufCap)
        b == Text(v)
    IN  /\ buf' = r.st.buf
        /\ highP' = r.st.highP
        /\ shadow' = PWriteBody(ShadowStore, i, Bytes(b), bufCap).st.buf
        /\ last' = [op |-> op, rank |-> i, b |-> b, n |-> r.n, err |-> r.err]
        /\ out' = <<>>
        /\ unread' = IF r.err = NoErr THEN Pushed(unread, i, b, bufCap) ELSE unread
        /\ phase' = IF phase = "writing" THEN "writing" ELSE "mixed"
        /\ written' = IF phase' = "mixed" THEN NoEntries
                      ELSE [written EXCEPT ![i] = Append(@, b)]
        /\ cnt' = [cnt EXCEPT ![i] = @ + 1]
        /\ UNCHANGED <<p, bufCap, dflt, napp, npop>>

\* a write, of at most MaxWrites
WriteAt(op, i, v) == NWrites < MaxWrites /\ WriteEffect(op, i, v)

\* what a Pop does to the store, and what it is seen to return
PopEffect ==
    LET r == PopBody(Store)
        sh == PopBody(ShadowStore)
    IN  /\ buf' = r.st.buf
        /\ highP' = r.st.highP
        /\ shadow' = sh.st.buf
        /\ last' = [op |-> "Pop", rank |-> highP, b |-> r.s, n |-> 0, err |-> r.err]
        /\ out' = Append(out, [s |-> r.s, err |-> r.err, want |-> Want(unread),
                               was |-> sh.s])
        /\ unread' = IF r.err = NoErr THEN Popped(unread, highP) ELSE unread
        /\ phase' = IF phase = "writing" THEN "draining" ELSE phase
        /\ npop' = npop + 1
        /\ UNCHANGED <<p, bufCap, written, dflt, napp, cnt>>

\* a Pop, of at most MaxPops
PopCall == npop < MaxPops /\ PopEffect

\* PWrite(prio, b), plog.go:165-182
PWrite ==
    /\ \E prio \in Priority : WriteAt("PWrite", prio, Bytes(Entry(prio, cnt[prio])))
    /\ UNCHANGED <<aArr, aLen>>
    /\ UNCHANGED concVars

\* Write(b), plog.go:160-162
Write ==
    /\ WriteAt("Write", GetPriorityBody, Bytes(Entry(p, cnt[p])))
    /\ UNCHANGED <<aArr, aLen>>
    /\ UNCHANGED concVars

\* Pop(), plog.go:134-157
Pop ==
    /\ PopCall
    /\ UNCHANGED <<aArr, aLen>>
    /\ UNCHANGED concVars

\* SetPriority(prio), plog.go:128-130
SetPriority ==
    \E prio \in Priority :
        /\ p' = prio
        /\ last' = [op |-> "SetPriority", rank |-> prio, b |-> <<>>, n |-> 0, err |-> NoErr]
        /\ dflt' = [rank |-> prio, by |-> "SetPriority"]
        /\ UNCHANGED <<bufCap, buf, highP, aArr, aLen, shadow, out, unread, written,
                       phase, napp, cnt, npop>>
        /\ UNCHANGED concVars

\* GetPriority(), plog.go:123-125
GetPriority ==
    /\ last' = [op |-> "GetPriority", rank |-> GetPriorityBody, b |-> <<>>, n |-> 0, err |-> NoErr]
    /\ UNCHANGED <<p, bufCap, buf, highP, aArr, aLen, shadow, out, unread, written,
                   phase, dflt, napp, cnt, npop>>
    /\ UNCHANGED concVars

Next == PWrite \/ Write \/ Pop \/ SetPriority \/ GetPriority

Spec == Init /\ [][Next]_vars

\* ---------------------------------------------------------------- bytes.Buffer

\* the strings a caller hands to Append, and the ranks it commits at
Frags == {<<7>>, <<8, 9>>}
LoggerRanks == {Trivial, Major}
\* the Append calls of one session, in order (plog_test.go:26-29 appends "n",
\* "e", "m", "o"): sessions may append the same or different fragments
SessionPlans == {<< <<7>>, <<8, 9>> >>, << <<8>>, <<7>> >>}

Max2(a, b) == IF a > b THEN a ELSE b

\* the capacity of the storage bytes.Buffer allocates when n more bytes do not
\* fit into a buffer of length m and capacity c: 2*c + n, or (newer
\* libraries) max(m + n, 2*c) rounded up to an allocation size class
GrowCaps(c, m, n) == {2 * c + n, ((Max2(m + n, 2 * c) + 7) \div 8) * 8}

\* the store once aBuf has left its storage: that storage is never written
\* again, so the slices that share it are of fixed content from now on
DetachedValue(v) == IF v.k = "alias" THEN Bytes(Text(v)) ELSE v
Detached(bf) ==
    [i \in Priority |->
        IF ~IsRing(bf[i]) THEN bf[i]
        ELSE [val |-> [j \in DOMAIN bf[i].val |-> DetachedValue(bf[i].val[j])],
              at |-> bf[i].at]]

\* aBuf.WriteString(s) when s fits into the spare capacity: the storage after
\* copy(buf[m:], s)
InPlace(s) ==
    [j \in 1..Len(aArr) |->
        IF j > aLen /\ j <= aLen + Len(s) THEN s[j - aLen] ELSE aArr[j]]

\* aBuf.WriteString(s) when s does not fit: new storage of capacity c2 with a
\* copy of the content, then s
Grown(s, c2) ==
    [j \in 1..c2 |->
        IF j <= aLen THEN aArr[j]
        ELSE IF j <= aLen + Len(s) THEN s[j - aLen] ELSE 0]

SFits(s) == aLen + Len(s) <= Len(aArr)

\* aBuf.WriteString(s)
WriteString(s) ==
    /\ aLen' = aLen + Len(s)
    /\ IF SFits(s)
       THEN aArr' = InPlace(s) /\ buf' = buf
       ELSE /\ \E c2 \in GrowCaps(Len(aArr), aLen, Len(s)) : aArr' = Grown(s, c2)
            /\ buf' = Detached(buf)

\* aBuf.Bytes(): the slice buf[off:], which shares the storage
BufBytes == Alias(aLen)

\* ---------------------------------------------------------------- SpecLogger

\* Append(s), plog.go:49-51
LoggerAppend ==
    \E s \in Frags :
        /\ napp < MaxAppends
        /\ napp' = napp + 1
        /\ WriteString(s)
        /\ last' = [op |-> "Append", rank |-> 0, b |-> s, n |-> 0, err |-> NoErr]
        /\ UNCHANGED <<p, bufCap, highP, shadow, out, unread, written, phase, dflt, cnt, npop>>
        /\ UNCHANGED concVars

\* AppendDone(prio), plog.go:56-59: PWrite of aBuf.Bytes(), then aBuf.Reset()
LoggerAppendDone ==
    /\ NWrites < MaxCommits
    /\ \E prio \in LoggerRanks : WriteAt("AppendDone", prio, BufBytes)
    /\ aLen' = 0
    /\ aArr' = aArr
    /\ UNCHANGED concVars

InitLogger == Init /\ p = Minor

NextLogger == LoggerAppend \/ LoggerAppendDone \/ Pop

SpecLogger == InitLogger /\ [][NextLogger]_vars

\* ---------------------------------------------------------------- SpecOverflow

\* the capacities of the overflow scenario: 5 in plog_test.go:107, 3 in the
\* scenario as the specification words it
OverflowCaps == {3, 5}

\* rb.Write([]byte("0")), .., rb.Write([]byte("6")), plog_test.go:108-114: the
\* c-th entry is the digit c
OverflowWrite ==
    /\ NWrites < OverflowWrites
    /\ WriteEffect("Write", GetPriorityBody, Bytes(<<cnt[p]>>))
    /\ UNCHANGED <<aArr, aLen>>
    /\ UNCHANGED concVars

\* rb.Pop(), plog_test.go:116-121
OverflowPop ==
    /\ npop < OverflowPops
    /\ PopEffect
    /\ UNCHANGED <<aArr, aLen>>
    /\ UNCHANGED concVars

InitOverflow == InitWith(OverflowCaps)

NextOverflow == OverflowWrite \/ OverflowPop

SpecOverflow == InitOverflow /\ [][NextOverflow]_vars

\* ---------------------------------------------------------------- SpecAnyCap

\* NewRingBuffer takes any int as size (plog.go:112-120): also 0 and -1
AnyCaps == -1..MaxBufCap

InitAnyCap == InitWith(AnyCaps)

\* no call has panicked
Alive == last.err # ErrNilDeref

\* the calls of the RingBuffer API, until one of them panics
NextAnyCap ==
    \/ Alive /\ PWrite
    \/ Alive /\ Write
    \/ Alive /\ Pop
    \/ Alive /\ SetPriority
    \/ Alive /\ GetPriority

SpecAnyCap == InitAnyCap /\ [][NextAnyCap]_vars

\* ---------------------------------------------------------------- SpecConc

\* what the sequential calls observe; no concurrent caller touches it
seqGhost == <<p, bufCap, shadow, last, unread, written, phase, dflt, napp, cnt>>

Running == fault = "none"
Goto(x, l) == pc' = [pc EXCEPT ![x] = l]
AllDone == \A x \in Sessions : pc[x] = "done"

\* l.Lock(), plog.go:38-40
SLock(x) ==
    /\ Running /\ pc[x] = "lock" /\ llock = NoProc
    /\ llock' = x
    /\ \E plan \in SessionPlans : loc' = [loc EXCEPT ![x].plan = plan]
    /\ Goto(x, "append")
    /\ UNCHANGED <<buf, highP, aArr, aLen, lock, fault, frags, order, early, out, npop>>
    /\ UNCHANGED seqGhost

\* l.Append(s), plog.go:49-51, for each string of the plan
SAppend(x) ==
    /\ Running /\ pc[x] = "append" /\ loc[x].k < Len(loc[x].plan)
    /\ LET s == loc[x].plan[loc[x].k + 1] IN
        /\ aLen' = aLen + Len(s)
        /\ frags' = [frags EXCEPT ![x] = @ \o s]
        /\ IF SFits(s)
           THEN /\ aArr' = InPlace(s)
                /\ buf' = buf
                /\ loc' = [loc EXCEPT ![x].k = @ + 1]
           ELSE /\ \E c2 \in GrowCaps(Len(aArr), aLen, Len(s)) : aArr' = Grown(s, c2)
                /\ buf' = Detached(buf)
                /\ loc' = [y \in Procs |->
                              [v |-> DetachedValue(loc[y].v), i |-> loc[y].i,
                               k |-> IF y = x THEN loc[y].k + 1 ELSE loc[y].k,
                               plan |-> loc[y].plan, slot |-> loc[y].slot]]
    /\ UNCHANGED <<highP, lock, llock, pc, fault, order, early, out, npop>>
    /\ UNCHANGED seqGhost

\* l.AppendDone(prio), plog.go:57: the call l.buf.PWrite(prio, l.aBuf.Bytes());
\* the sessions all commit at one rank, as in plog_test.go:30
SCommit(x) ==
    /\ Running /\ pc[x] = "append" /\ loc[x].k = Len(loc[x].plan)
    /\ \E prio \in LoggerRanks :
        /\ order # <<>> => prio = order[1].rank
        /\ loc' = [loc EXCEPT ![x].v = BufBytes, ![x].i = prio]
        /\ order' = Append(order, [s |-> x, rank |-> prio])
    /\ Goto(x, "w_lock")
    /\ UNCHANGED <<buf, highP, aArr, aLen, lock, llock, fault, frags, early, out, npop>>
    /\ UNCHANGED seqGhost

\* r.lock.Lock(), plog.go:166
WLock(x) ==
    /\ Running /\ pc[x] = "w_lock" /\ lock = NoProc
    /\ lock' = x
    /\ Goto(x, "w_raise")
    /\ UNCHANGED <<buf, highP, aArr, aLen, llock, loc, fault, frags, order, early, out, npop>>
    /\ UNCHANGED seqGhost

\* plog.go:169-172
WRaise(x) ==
    /\ Running /\ pc[x] = "w_raise"
    /\ highP' = PWriteRaise(Store, loc[x].i).highP
    /\ Goto(x, "w_alloc")
    /\ UNCHANGED <<buf, aArr, aLen, lock, llock, loc, fault, frags, order, early, out, npop>>
    /\ UNCHANGED seqGhost

\* plog.go:174-176
WAlloc(x) ==
    /\ Running /\ pc[x] = "w_alloc"
    /\ buf' = PWriteAlloc(Store, loc[x].i, bufCap).buf
    /\ Goto(x, "w_store")
    /\ UNCHANGED <<highP, aArr, aLen, lock, llock, loc, fault, frags, order, early, out, npop>>
    /\ UNCHANGED seqGhost

\* plog.go:178
WStore(x) ==
    /\ Running /\ pc[x] = "w_store"
    /\ IF IsRing(buf[loc[x].i])
       THEN /\ buf' = PWriteStore(Store, loc[x].i, loc[x].v).buf
            /\ Goto(x, "w_next")
            /\ fault' = fault
       ELSE /\ fault' = ErrNilDeref
            /\ UNCHANGED <<buf, pc>>
    /\ UNCHANGED <<highP, aArr, aLen, lock, llock, loc, frags, order, early, out, npop>>
    /\ UNCHANGED seqGhost

\* plog.go:179
WNext(x) ==
    /\ Running /\ pc[x] = "w_next"
    /\ buf' = PWriteNext(Store, loc[x].i).buf
    /\ Goto(x, "w_unlock")
    /\ UNCHANGED <<highP, aArr, aLen, lock, llock, loc, fault, frags, order, early, out, npop>>
    /\ UNCHANGED seqGhost

\* plog.go:181 with the deferred r.lock.Unlock() of plog.go:167
WUnlock(x) ==
    /\ Running /\ pc[x] = "w_unlock"
    /\ lock' = NoProc
    /\ Goto(x, "reset")
    /\ UNCHANGED <<buf, highP, aArr, aLen, llock, loc, fault, frags, order, early, out, npop>>
    /\ UNCHANGED seqGhost

\* l.aBuf.Reset(), plog.go:58
SReset(x) ==
    /\ Running /\ pc[x] = "reset"
    /\ aLen' = 0
    /\ Goto(x, "unlock")
    /\ UNCHANGED <<buf, highP, aArr, lock, llock, loc, fault, frags, order, early, out, npop>>
    /\ UNCHANGED seqGhost

\* l.Unlock(), plog.go:43-45
SUnlock(x) ==
    /\ Running /\ pc[x] = "unlock"
    /\ llock' = NoProc
    /\ Goto(x, "done")
    /\ UNCHANGED <<buf, highP, aArr, aLen, lock, loc, fault, frags, order, early, out, npop>>
    /\ UNCHANGED seqGhost

\* a Pop returns (s, err) to its caller
Returns(x, s, err) ==
    /\ out' = Append(out, [s |-> s, err |-> err])
    /\ Goto(x, "idle")

\* Pop is called; plog.go:135-138
PCheck(x) ==
    /\ Running /\ pc[x] = "idle" /\ npop < MaxPops
    /\ npop' = npop + 1
    /\ early' = (early \/ ~AllDone)
    /\ IF PopHasKey(Store) THEN Goto(x, "p_prev") /\ out' = out
       ELSE Returns(x, <<>>, ErrEmpty)
    /\ UNCHANGED <<buf, highP, aArr, aLen, lock, llock, loc, fault, frags, order>>
    /\ UNCHANGED seqGhost

\* plog.go:140
PPrev(x) ==
    /\ Running /\ pc[x] = "p_prev"
    /\ IF IsRing(buf[highP])
       THEN /\ buf' = PopPrev(Store).buf
            /\ Goto(x, "p_read")
            /\ fault' = fault
       ELSE /\ fault' = ErrNilDeref
            /\ UNCHANGED <<buf, pc>>
    /\ UNCHANGED <<highP, aArr, aLen, lock, llock, loc, frags, order, early, out, npop>>
    /\ UNCHANGED seqGhost

\* plog.go:141-144
PRead(x) ==
    /\ Running /\ pc[x] = "p_read"
    /\ IF ~IsRing(buf[highP])
       THEN fault' = ErrNilDeref /\ UNCHANGED <<pc, loc, out>>
       ELSE /\ fault' = fault
            /\ IF PopValue(Store) = Nil
               THEN Returns(x, <<>>, ErrAssert) /\ loc' = loc
               ELSE /\ loc' = [loc EXCEPT ![x].v = PopValue(Store),
                                          ![x].slot = <<highP, buf[highP].at>>]
                    /\ Goto(x, "p_clear")
                    /\ out' = out
    /\ UNCHANGED <<buf, highP, aArr, aLen, lock, llock, frags, order, early, npop>>
    /\ UNCHANGED seqGhost

\* plog.go:146, and i := r.highP of plog.go:149
PClear(x) ==
    /\ Running /\ pc[x] = "p_clear"
    /\ IF IsRing(buf[highP])
       THEN /\ buf' = PopClear(Store).buf
            /\ loc' = [loc EXCEPT ![x].i = highP]
            /\ Goto(x, "p_scan")
            /\ fault' = fault
       ELSE /\ fault' = ErrNilDeref
            /\ UNCHANGED <<buf, pc, loc>>
    /\ UNCHANGED <<highP, aArr, aLen, lock, llock, frags, order, early, out, npop>>
    /\ UNCHANGED seqGhost

\* plog.go:149-154, one iteration
PScan(x) ==
    /\ Running /\ pc[x] = "p_scan"
    /\ IF loc[x].i < 0
       THEN Goto(x, "p_ret") /\ UNCHANGED <<highP, loc>>
       ELSE IF PopScanHit(Store, loc[x].i)
            THEN highP' = loc[x].i /\ Goto(x, "p_ret") /\ loc' = loc
            ELSE loc' = [loc EXCEPT ![x].i = @ - 1] /\ UNCHANGED <<highP, pc>>
    /\ UNCHANGED <<buf, aArr, aLen, lock, llock, fault, frags, order, early, out, npop>>
    /\ UNCHANGED seqGhost

\* plog.go:156
PRet(x) ==
    /\ Running /\ pc[x] = "p_ret"
    /\ Returns(x, Text(loc[x].v), NoErr)
    /\ UNCHANGED <<buf, highP, aArr, aLen, lock, llock, loc, fault, frags, order, early, npop>>
    /\ UNCHANGED seqGhost

\* the statements that read r.buf, and those that assign to it
MapReads == {"w_alloc", "w_store", "w_next", "p_prev", "p_read", "p_clear", "p_scan"}
MapWrites == {"w_next", "p_prev"}
WritesMap(x) ==
    \/ pc[x] \in MapWrites
    \/ pc[x] = "w_alloc" /\ ~IsRing(buf[loc[x].i])

\* Two callers are at statements that access the map r.buf, one of them an
\* assignment: a data race. Besides every interleaving of the statements, the
\* runtime may end the program ("fatal error: concurrent map read and map
\* write").
MapRace ==
    /\ Running
    /\ \E x, y \in Procs : x # y /\ WritesMap(x) /\ pc[y] \in MapReads
    /\ fault' = "concurrent map read and map write"
    /\ UNCHANGED <<buf, highP, aArr, aLen, lock, llock, pc, loc, frags, order, early, out, npop>>
    /\ UNCHANGED seqGhost

InitConc == Init /\ p = Minor

NextConc ==
    \/ \E x \in Sessions :
           \/ SLock(x) \/ SAppend(x) \/ SCommit(x)
           \/ WLock(x) \/ WRaise(x) \/ WAlloc(x) \/ WStore(x) \/ WNext(x) \/ WUnlock(x)
           \/ SReset(x) \/ SUnlock(x)
    \/ \E x \in Drainers :
           PCheck(x) \/ PPrev(x) \/ PRead(x) \/ PClear(x) \/ PScan(x) \/ PRet(x)
    \/ MapRace

SpecConc == InitConc /\ [][NextConc]_vars

\* ---------------------------------------------------------------- SpecPops

\* PWrite(prio, b) from start to end, by a caller of its own, while the
\* callers of Pop are anywhere in Pop
PopsWrite ==
    /\ Running /\ lock = NoProc /\ NWrites < MaxWrites
    /\ \E prio \in LoggerRanks :
          LET r == PWriteBody(Store, prio, Bytes(Entry(prio, cnt[prio])), bufCap)
          IN  /\ buf' = r.st.buf
              /\ highP' = r.st.highP
              /\ cnt' = [cnt EXCEPT ![prio] = @ + 1]
    /\ UNCHANGED <<p, bufCap, aArr, aLen, shadow, last, out, unread, written, phase,
                   dflt, napp, npop>>
    /\ UNCHANGED concVars

\* the store is written by one caller and read by the callers of Pop, each
\* Pop one statement at a time
NextPops ==
    \/ PopsWrite
    \/ \E x \in Poppers :
           PCheck(x) \/ PPrev(x) \/ PRead(x) \/ PClear(x) \/ PScan(x) \/ PRet(x)
    \/ MapRace

InitPops == Init /\ p = Minor

SpecPops == InitPops /\ [][NextPops]_vars

\* ---------------------------------------------------------------- claims, Spec

Failed(o) == o.err # NoErr

\* C1: whenever a written entry is still unread, the next Pop succeeds and
\* returns the most recently written unread entry of the highest priority
\* that has an unread entry.
C1_PopNewestOfHighest ==
    \A k \in 1..Len(out) :
        out[k].want.ok => out[k].err = NoErr /\ out[k].s = out[k].want.s

RECURSIVE Reverse(_)
Reverse(q) == IF q = <<>> THEN <<>> ELSE Append(Reverse(Tail(q)), Head(q))

RECURSIVE DrainFrom(_, _)
\* the entries of w, rank i downwards, newest first within a rank
DrainFrom(w, i) == IF i < 0 THEN <<>> ELSE Reverse(w[i]) \o DrainFrom(w, i - 1)

\* C2: with all writes before all Pops and at most bufCap entries per rank,
\* the Pops return every written entry once, higher ranks first and newest
\* first within a rank, and nothing after that.
C2_DrainOrder ==
    (phase # "mixed" /\ \A i \in Priority : Len(written[i]) <= bufCap) =>
        LET exp == DrainFrom(written, Critical)
        IN  \A k \in 1..Len(out) :
                IF k <= Len(exp)
                THEN out[k].err = NoErr /\ out[k].s = exp[k]
                ELSE Failed(out[k])

C2_Witness ==
    /\ phase = "draining"
    /\ Cardinality(Ranks(written)) >= 2
    /\ NWrites = MaxWrites
    /\ Len(out) = NWrites
    /\ \A k \in 1..Len(out) : ~Failed(out[k])

\* C3: after n > bufCap writes at one rank into a fresh store, the Pops
\* return the bufCap most recent entries, newest first, and Pop number
\* bufCap + 1 returns an error.
C3_Overflow ==
    \A q \in Priority :
        (phase # "mixed" /\ Ranks(written) = {q} /\ Len(written[q]) > bufCap) =>
            \A k \in 1..Len(out) :
                /\ k <= bufCap =>
                      out[k].err = NoErr /\ out[k].s = written[q][Len(written[q]) - k + 1]
                /\ k = bufCap + 1 => Failed(out[k])

C3_Witness ==
    /\ bufCap >= 2
    /\ \E q \in Priority : Ranks(written) = {q} /\ Len(written[q]) > bufCap
    /\ Len(out) = bufCap + 1
    /\ Failed(out[bufCap + 1])

\* C6: every failing Pop fails with "Buffer is empty", never with "pop type
\* assertion failed".
C6_OnlyEmptyError ==
    \A k \in 1..Len(out) : out[k].err \in {NoErr, ErrEmpty}

\* C7: once a Pop returned an error, every following Pop returns the same
\* error until the next write.
C7_EmptyIsStable ==
    \A j, k \in 1..Len(out) :
        (j < k /\ Failed(out[j])) => out[k].err = out[j].err

C7_Witness ==
    /\ NWrites > 0
    /\ Len(out) = 3
    /\ ~Failed(out[1]) /\ Failed(out[2]) /\ Failed(out[3])

\* C9: with capacity >= 1 every PWrite and Write returns (len(b), nil), also
\* into a full ring and into a rank that had no ring, which then has one of
\* the store's capacity.
C9_WriteNeverFails ==
    last.op \in {"PWrite", "Write"} =>
        /\ last.n = Len(last.b)
        /\ last.err = NoErr
        /\ IsRing(buf[last.rank]) /\ RingLen(buf[last.rank]) = bufCap

C9_Witness ==
    /\ last.op = "PWrite"
    /\ bufCap >= 2
    /\ npop = 0
    /\ cnt[last.rank] > bufCap
    /\ last.n = Len(last.b) /\ last.n > 1

\* C10: Write(b) does what PWrite(d, b) does, d being the default priority
\* set last by NewRingBuffer or SetPriority; SetPriority changes the default
\* priority and nothing else of the store; GetPriority changes nothing.
C10_WriteIsPWriteDefault ==
    [][ /\ (cnt' # cnt /\ last'.op = "Write") =>
            LET r == PWriteBody(Store, dflt.rank, Bytes(last'.b), bufCap)
            IN  /\ buf' = r.st.buf /\ highP' = r.st.highP
                /\ last'.n = r.n /\ last'.err = r.err
                /\ UNCHANGED <<p, bufCap>>
        /\ (dflt' # dflt) =>
            /\ p' = dflt'.rank
            /\ UNCHANGED <<bufCap, buf, highP, unread>>
        /\ (last' # last /\ last'.op = "GetPriority") =>
            /\ last'.rank = dflt.rank
            /\ UNCHANGED <<p, bufCap, buf, highP, unread>>
      ]_vars

C10_Witness ==
    /\ last.op = "Write"
    /\ dflt = [rank |-> Critical, by |-> "SetPriority"]
    /\ highP = Critical
    /\ cnt[Critical] = 2
    /\ cnt[Major] = 1

\* the ring of rank i in bf has an element that holds an entry
HoldsUnread(bf, i) == IsRing(bf[i]) /\ \E j \in DOMAIN bf[i].val : bf[i].val[j] # Nil
\* the ranks that hold an unread entry
Occupied == {i \in Priority : HoldsUnread(buf, i)}

\* C13: after every Pop and every PWrite (or Write), highP is the highest
\* rank that holds an unread entry, and 0 when no rank holds one.
C13_HighPIsTopRank ==
    last.op \in {"PWrite", "Write", "Pop"} =>
        IF Occupied = {} THEN highP = 0
        ELSE highP = CHOOSE i \in Occupied : \A j \in Occupied : j <= i

RECURSIVE HeldBack(_, _)
\* the entries of the n elements before r, back to the first element that
\* holds none, oldest first
HeldBack(r, n) ==
    IF n = 0 \/ RingValue(RingPrev(r)) = Nil THEN <<>>
    ELSE Append(HeldBack(RingPrev(r), n - 1), Text(RingValue(RingPrev(r))))
\* the unread entries of rank i in bf, oldest first
Held(bf, i) == IF IsRing(bf[i]) THEN HeldBack(bf[i], RingLen(bf[i])) ELSE <<>>
\* the number of elements of rank i in bf that hold an entry
NHeld(bf, i) ==
    IF IsRing(bf[i]) THEN Cardinality({j \in DOMAIN bf[i].val : bf[i].val[j] # Nil}) ELSE 0

\* C14: the ring of every rank holds exactly the unread entries of the
\* reference model, in its order: there a write destroys the oldest unread
\* entry of its rank when the rank has bufCap unread entries and none
\* otherwise (Pushed), and a Pop removes the newest entry of its rank
\* (Popped). So each ring holds the min(bufCap, unread) most recent unread
\* entries of its rank.
C14_WriteEvictsOldestWhenFull ==
    \A i \in Priority :
        /\ Held(buf, i) = unread[i]
        /\ NHeld(buf, i) = Len(unread[i])

\* a write into the full ring of capacity 1, between writes and Pops
C14_Witness ==
    /\ phase = "mixed"
    /\ last.op = "PWrite"
    /\ bufCap = 1
    /\ npop >= 1
    /\ cnt[last.rank] = 3
    /\ Held(buf, last.rank) = <<last.b>>

\* C18: no rank above highP holds an unread entry: its ring is absent or all
\* its elements are empty.
C18_NothingAboveHighP ==
    \A i \in Priority : i > highP => ~HoldsUnread(buf, i)

\* Pops have lowered highP to a rank that holds an entry, below a rank whose
\* ring they emptied
C18_Witness ==
    /\ last.op = "Pop" /\ last.err = NoErr
    /\ HoldsUnread(buf, highP)
    /\ \E i \in Priority : i > highP /\ IsRing(buf[i])
    /\ cnt[highP] >= 1 /\ NWrites = MaxWrites

\* ---------------------------------------------------------------- claims, SpecOverflow

\* "0", "1", .., "6" were written, in this order, and no write followed a Pop
SevenWritten == phase = "draining" /\ written[p] = <<<<0>>, <<1>>, <<2>>, <<3>>, <<4>>, <<5>>, <<6>>>>

\* C11 as stated: in a store of capacity 3, after "0", .., "6" were written at
\* one priority, the Pops yield "6", "5", "4", "3", "2" and then an error.
C11_OverflowAsStated ==
    (bufCap = 3 /\ SevenWritten) =>
        \A k \in 1..Len(out) :
            /\ k <= 5 => out[k].err = NoErr /\ out[k].s = <<7 - k>>
            /\ k = 6 => Failed(out[k])

\* C11, amended: after "0", .., "6" were written at one priority, the Pops of
\* a store of capacity 3 yield "6", "5", "4" and then an error; those of a
\* store of capacity 5 yield "6", "5", "4", "3", "2" and then an error.
C11_OverflowScenario ==
    SevenWritten =>
        \A k \in 1..Len(out) :
            /\ k <= bufCap => out[k].err = NoErr /\ out[k].s = <<7 - k>>
            /\ k = bufCap + 1 => Failed(out[k])

C11_Witness ==
    /\ bufCap = 3
    /\ SevenWritten
    /\ Len(out) = 4
    /\ out[3].s = <<4>> /\ Failed(out[4])

\* ---------------------------------------------------------------- claims, SpecAnyCap

\* C12: a size below 1 is rejected at construction, so no PWrite, Write or
\* Pop ends in the dereference of a missing ring.
C12_NonPositiveRejected == last.err # ErrNilDeref

\* ---------------------------------------------------------------- claims, SpecLogger

\* C5: the text Pop returns for an entry committed by AppendDone is the
\* content of the accumulator at that AppendDone, whatever is appended or
\* committed in between.
C5_EntryImmutable ==
    \A k \in 1..Len(out) : out[k].err = NoErr => out[k].s = out[k].was

\* the position of the write cursor of rank i in bf; a ring starts at 0
CursorAt(bf, i) == IF IsRing(bf[i]) THEN bf[i].at ELSE 0

\* C16: every AppendDone leaves the accumulator empty. An AppendDone made
\* while the accumulator is empty writes an entry of length 0 at its rank: the
\* write cursor advances by one, highP is raised to the rank if it was below,
\* the entry is the newest of the rank and the oldest is evicted if the ring
\* was full. A Pop whose element holds an entry of length 0 returns "" and no
\* error, and removes that entry.
C16_EmptyCommitIsAnEntry ==
    [][ /\ (cnt' # cnt /\ last'.op = "AppendDone") =>
            LET i == last'.rank
                h == Held(buf, i)
            IN  /\ aLen' = 0
                /\ aLen = 0 =>
                      /\ last'.err = NoErr /\ last'.n = 0
                      /\ IsRing(buf'[i])
                      /\ buf'[i].at = (CursorAt(buf, i) + 1) % bufCap
                      /\ RingValue(RingPrev(buf'[i])) # Nil
                      /\ SliceLen(RingValue(RingPrev(buf'[i]))) = 0
                      /\ highP' = Max2(highP, i)
                      /\ NHeld(buf', i) = Len(Held(buf', i))
                      /\ Held(buf', i) = IF Len(h) >= bufCap THEN Append(Tail(h), <<>>)
                                         ELSE Append(h, <<>>)
        /\ (npop' # npop /\ IsRing(buf[highP])
              /\ RingValue(RingPrev(buf[highP])) # Nil
              /\ SliceLen(RingValue(RingPrev(buf[highP]))) = 0) =>
            /\ last'.err = NoErr /\ last'.b = <<>>
            /\ Held(buf', highP) = SubSeq(Held(buf, highP), 1, Len(Held(buf, highP)) - 1)
      ]_vars

\* a Pop returned the entry of an empty commit that had evicted an entry
C16_Witness ==
    /\ last.op = "Pop" /\ last.err = NoErr /\ last.b = <<>>
    /\ bufCap = 1
    /\ napp >= 1
    /\ cnt[last.rank] = 2

\* ---------------------------------------------------------------- claims, SpecConc

Min2(a, b) == IF a <= b THEN a ELSE b

\* a caller is past the first and before the last statement of its call
InPWrite(x) == pc[x] \in {"w_raise", "w_alloc", "w_store", "w_next", "w_unlock"}
InPop(x) == pc[x] \in {"p_prev", "p_read", "p_clear", "p_scan", "p_ret"}

\* C4: once every session has unlocked, there is one commit per session, and
\* draining the store yields min(N, capacity) entries, each the concatenation
\* of the fragments of one session (different entries, different sessions);
\* the Pops after those fail.
C4_SessionsCommitWhole ==
    (AllDone /\ ~early) =>
        /\ Len(order) = Cardinality(Sessions)
        /\ \E f \in [1..Len(out) -> Sessions] :
               \A k \in 1..Len(out) :
                   IF k <= Min2(Cardinality(Sessions), bufCap)
                   THEN /\ out[k].err = NoErr
                        /\ out[k].s = frags[f[k]]
                        /\ \A j \in 1..(k - 1) : f[j] # f[k]
                   ELSE Failed(out[k])

\* C15: the element a Pop clears is the element it read, still holding the
\* entry it read, and no entry is returned by two Pops (the entries written
\* are pairwise different).
C15_PopReturnsOnceClearsOwn ==
    [][ /\ \A x \in Poppers :
              (pc[x] = "p_clear" /\ pc'[x] = "p_scan") =>
                  /\ loc[x].slot = <<highP, buf[highP].at>>
                  /\ RingValue(buf[highP]) = loc[x].v
        /\ \A j, k \in 1..Len(out') :
              (j # k /\ out'[j].err = NoErr /\ out'[k].err = NoErr) => out'[j].s # out'[k].s
      ]_vars

\* a session between Lock and the return of Unlock, or a caller inside Pop
Unfinished(x) ==
    IF x \in Sessions THEN pc[x] \notin {"lock", "done"} ELSE pc[x] # "idle"

\* C17: in every reachable state with an unfinished call some caller can
\* take a step: no session, PWrite or Pop is left waiting for ever.
C17_NoCallLeftWaiting ==
    (\E x \in Procs : Unfinished(x)) => ENABLED NextConc

\* C8: no caller is inside Pop while another caller is inside PWrite or
\* inside Pop.
C8_PopPWriteExclusive ==
    \A x, y \in Procs :
        (x # y /\ InPop(x)) => ~(InPWrite(y) \/ InPop(y))

====
